---- MODULE Spec2Model ----
(***************************************************************************)
(* A model of three classes of the FutureForms core:                       *)
(*   - Key             (model/relations/Key.ts)                            *)
(*   - FieldProperties (public/FieldProperties.ts)                         *)
(*   - FormsModule     (application/FormsModule.ts)                        *)
(*                                                                         *)
(* Strings are sequences of characters, so that toLowerCase is computed    *)
(* character by character.  null is a value distinct from every string.    *)
(* Arrays live in a heap and are held by reference, as in JavaScript.      *)
(***************************************************************************)
EXTENDS Integers, Sequences, FiniteSets, TLC

VARIABLES
    \* ---- Key ----
    blockArg,     \* the constructor's first argument
    fieldsArg,    \* the constructor's second argument
    heap,         \* the arrays of the program: heap[r] is the content of array r
    key,          \* the Key object: name$, block$, fields$ (an array reference)
    outcome,      \* "pending", "returned" (constructor returned) or "thrown" (TypeError)
    atReturn,     \* block and fields content as they were when the constructor ended
    passed,       \* the content of the array argument when the constructor was called
    alerts,       \* the calls of Alert.fatal so far, each a message and a tag
    \* ---- FieldProperties ----
    props,        \* the FieldProperties instances and their attributes
    ret,          \* what the last FieldProperties call returned
    lastCall,     \* the last FieldProperties call: method, instance, argument
    lastSet,      \* per instance and attribute, the argument of the last call of its
                  \* setter (the constructed value while it was never called)
    ncalls,       \* number of FieldProperties calls so far
    \* ---- FormsModule (singleton) ----
    instance,     \* the static FormsModule.instance (NoInstance = not set)
    created,      \* number of FormsModule objects constructed so far
    inits,        \* how often each one-time initialisation has run
    getReturns,   \* what the calls of FormsModule.get() returned, in order
    showurl,      \* showurl$ of every constructed FormsModule
    root,         \* root$ of every constructed FormsModule
    \* ---- FormsModule (components) ----
    classmap,     \* Components.classmap: path -> class
    classurl,     \* Components.classurl: class name -> path
    mapCalls      \* the calls of mapComponent so far, in order

keyVars == <<blockArg, fieldsArg, heap, key, outcome, atReturn, passed>>
propVars == <<props, ret, lastCall, lastSet, ncalls>>
singletonVars == <<instance, created, inits, getReturns, showurl, root>>
componentVars == <<classmap, classurl, mapCalls>>
vars == <<keyVars, alerts, propVars, singletonVars, componentVars>>

----------------------------------------------------------------------------
(* Strings *)

\* null (and undefined, which == null equates with it)
Null == <<"null">>

\* string.toLowerCase(), on one character
LowerChar(c) ==
    CASE c = "A" -> "a"
      [] c = "B" -> "b"
      [] OTHER -> c

\* A wrong toLowerCase that leaves the string as it is
toLowerCaseIdentity(s) == s

\* string.toLowerCase()
toLowerCase(s) == [i \in 1..Len(s) |-> LowerChar(s[i])]

\* The strings the model draws identifiers from
Strings == { <<>>, <<"a">>, <<"A">>, <<"A", "b">> }

----------------------------------------------------------------------------
(* Key *)

\* Longest array the caller passes
MaxFields == 2

NoRef == 0

NoAlert == [msg |-> "", tag |-> ""]

\* The arrays of at most n elements, each a string or null
RECURSIVE ArraysUpTo(_)
ArraysUpTo(n) ==
    IF n = 0 THEN { <<>> }
    ELSE LET shorter == ArraysUpTo(n - 1)
         IN  shorter \cup { Append(a, v) : a \in shorter, v \in Strings \cup {Null} }

\* block: null, a string, or a Block whose name is the string
BlockArgs ==
    { [kind |-> "null", name |-> Null] }
    \cup { [kind |-> k, name |-> s] : k \in {"string", "block"}, s \in Strings }

\* fields: null, a string, or an array (held by reference)
NullFields == [kind |-> "null", value |-> Null, ref |-> NoRef]
StringFields(s) == [kind |-> "string", value |-> s, ref |-> NoRef]
ArrayFields(r) == [kind |-> "array", value |-> Null, ref |-> r]

\* A wrong wrap that takes the string for the list of its characters
AsArraySplit(fields, h) ==
    IF fields.kind = "array"
    THEN [ref |-> fields.ref, heap |-> h]
    ELSE [ref |-> Len(h) + 1,
          heap |-> Append(h, [i \in 1..Len(fields.value) |-> <<fields.value[i]>>])]

\* if (!Array.isArray(fields)) fields = [fields];
AsArray(fields, h) ==
    IF fields.kind = "array"
    THEN [ref |-> fields.ref, heap |-> h]
    ELSE [ref |-> Len(h) + 1, heap |-> Append(h, <<fields.value>>)]

\* A wrong validation that forgets the empty list
KeyFatalNoEmptyCheck(block, fields, h) ==
    IF block.kind = "null"
    THEN [msg |-> "Invalid key definition, block: 'null'", tag |-> "Key"]
    ELSE IF fields.kind = "null"
    THEN [msg |-> "Invalid key definition, fields: 'null'", tag |-> "Key"]
    ELSE NoAlert

\* The three guards of the constructor: the fatal alert raised, or NoAlert
KeyFatal(block, fields, h) ==
    IF block.kind = "null"
    THEN [msg |-> "Invalid key definition, block: 'null'", tag |-> "Key"]
    ELSE IF fields.kind = "null"
    THEN [msg |-> "Invalid key definition, fields: 'null'", tag |-> "Key"]
    ELSE LET a == AsArray(fields, h)
         IN  IF Len(a.heap[a.ref]) = 0
             THEN [msg |-> "Invalid key definition, no fields", tag |-> "Key"]
             ELSE NoAlert

\* for (let i = 0; i < fields.length; i++) fields[i] = fields[i].toLowerCase();
\* from position i on; null.toLowerCase() throws a TypeError and ends the loop
RECURSIVE LowerFrom(_, _)
LowerFrom(arr, i) ==
    IF i > Len(arr) THEN [arr |-> arr, thrown |-> FALSE]
    ELSE IF arr[i] = Null THEN [arr |-> arr, thrown |-> TRUE]
    ELSE LowerFrom([arr EXCEPT ![i] = toLowerCase(arr[i])], i + 1)

\* The field initialisers of the class
NewKey == [name |-> Null, block |-> Null, fields |-> NoRef]

\* new Key(block, fields) on heap h: the object, the heap, the alerts raised
\* and whether the constructor returned or threw
KeyConstructor(block, fields, h) ==
    LET fatal == KeyFatal(block, fields, h)
    IN  IF fatal # NoAlert
        THEN [key |-> NewKey, heap |-> h, alerts |-> <<fatal>>, outcome |-> "returned"]
        ELSE LET a == AsArray(fields, h)
                 loop == LowerFrom(a.heap[a.ref], 1)
             IN  [key |-> [name |-> Null,
                           block |-> toLowerCase(block.name),
                           fields |-> a.ref],
                  heap |-> [a.heap EXCEPT ![a.ref] = loop.arr],
                  alerts |-> <<>>,
                  outcome |-> IF loop.thrown THEN "thrown" ELSE "returned"]

\* get fields(): the reference itself, no copy
FieldsAccessor(k) == k.fields

\* The content of the array behind a reference (null for no array)
Content(h, r) == IF r = NoRef THEN Null ELSE h[r]

\* The state before new Key(block, fields): the caller holds the arguments
KeyInit ==
    /\ blockArg \in BlockArgs
    /\ \/ /\ fieldsArg \in {NullFields} \cup { StringFields(s) : s \in Strings }
          /\ heap = <<>>
          /\ passed = Null
       \/ /\ fieldsArg = ArrayFields(1)
          /\ passed \in ArraysUpTo(MaxFields)
          /\ heap = <<passed>>
    /\ key = NewKey
    /\ outcome = "pending"
    /\ atReturn = [block |-> Null, fields |-> Null]
    /\ alerts = <<>>

\* new Key(blockArg, fieldsArg)
Construct ==
    /\ outcome = "pending"
    /\ LET r == KeyConstructor(blockArg, fieldsArg, heap)
       IN  /\ key' = r.key
           /\ heap' = r.heap
           /\ alerts' = alerts \o r.alerts
           /\ outcome' = r.outcome
           /\ atReturn' = [block |-> r.key.block,
                           fields |-> Content(r.heap, r.key.fields)]
    /\ UNCHANGED <<blockArg, fieldsArg, passed, propVars, singletonVars, componentVars>>

\* The caller stores into the array it passed to the constructor
CallerWrite ==
    /\ outcome = "returned"
    /\ fieldsArg.kind = "array"
    /\ \E i \in 1..Len(heap[fieldsArg.ref]), v \in Strings \cup {Null} :
          heap' = [heap EXCEPT ![fieldsArg.ref][i] = v]
    /\ UNCHANGED <<blockArg, fieldsArg, key, outcome, atReturn, passed, alerts>>
    /\ UNCHANGED <<propVars, singletonVars, componentVars>>

\* The caller stores into the array the fields accessor returned
AccessorWrite ==
    /\ outcome = "returned"
    /\ FieldsAccessor(key) # NoRef
    /\ \E i \in 1..Len(heap[FieldsAccessor(key)]), v \in Strings \cup {Null} :
          heap' = [heap EXCEPT ![FieldsAccessor(key)][i] = v]
    /\ UNCHANGED <<blockArg, fieldsArg, key, outcome, atReturn, passed, alerts>>
    /\ UNCHANGED <<propVars, singletonVars, componentVars>>

----------------------------------------------------------------------------
(* FieldProperties *)

\* Longest chain of FieldProperties calls
MaxPropCalls == 3

\* The FieldProperties objects of the model
Instances == {1, 2}

NoInstance == 0

DataTypes == {"string", "integer"}
Tags == {"input", "div"}
Styles == {"", "color: red"}
Values == {"", "x"}
ValidValueSets == { {}, {"x", "y"} }

\* The attributes the fluent setters of FieldProperties store directly
DirectAttributes ==
    {"tag", "enabled", "readonly", "required", "hidden", "styles", "value", "validValues"}

\* The attributes of a freshly built properties object
BasicProperties(type, derived) ==
    [tag |-> "input", type |-> type, enabled |-> FALSE, readonly |-> FALSE,
     derived |-> derived, required |-> FALSE, hidden |-> FALSE, styles |-> "",
     value |-> "", validValues |-> {}]

\* this.<attr> = v on a properties object
Store(obj, attr, v) == [obj EXCEPT ![attr] = v]

\* The record of a call, kept for the properties that speak of "each call"
Called(method, self, arg) ==
    /\ lastCall' = [method |-> method, self |-> self, arg |-> arg]
    /\ ncalls' = ncalls + 1

\* What the setter of an attribute was last called with
Remember(self, attr, arg) == lastSet' = [lastSet EXCEPT ![self][attr] = arg]

PropsInit ==
    /\ props = [i \in Instances |->
                  IF i = 1 THEN BasicProperties("string", FALSE)
                  ELSE BasicProperties("integer", TRUE)]
    /\ ret = NoInstance
    /\ lastCall = [method |-> "none", self |-> NoInstance, arg |-> "none"]
    /\ lastSet = props
    /\ ncalls = 0

\* A wrong setTag that answers with another object
setTagOther ==
    /\ ncalls < MaxPropCalls
    /\ \E self \in Instances, tag \in Tags :
          /\ props' = [props EXCEPT ![self] = Store(@, "tag", tag)]
          /\ ret' = CHOOSE i \in Instances : i # self
          /\ Called("setTag", self, tag)
          /\ Remember(self, "tag", tag)
    /\ UNCHANGED <<alerts, keyVars, singletonVars, componentVars>>

setTag ==
    /\ ncalls < MaxPropCalls
    /\ \E self \in Instances, tag \in Tags :
          /\ props' = [props EXCEPT ![self] = Store(@, "tag", tag)]
          /\ ret' = self
          /\ Called("setTag", self, tag)
          /\ Remember(self, "tag", tag)
    /\ UNCHANGED <<alerts, keyVars, singletonVars, componentVars>>

\* A wrong setType that stores the type after the alert
setTypeStoring ==
    /\ ncalls < MaxPropCalls
    /\ \E self \in Instances, type \in DataTypes :
          /\ alerts' = Append(alerts, [msg |-> "Data type cannot be changed",
                                       tag |-> "Properties"])
          /\ props' = [props EXCEPT ![self] = Store(@, "type", type)]
          /\ ret' = self
          /\ Called("setType", self, type)
    /\ UNCHANGED <<lastSet, keyVars, singletonVars, componentVars>>

setType ==
    /\ ncalls < MaxPropCalls
    /\ \E self \in Instances, type \in DataTypes :
          /\ alerts' = Append(alerts, [msg |-> "Data type cannot be changed",
                                       tag |-> "Properties"])
          /\ ret' = self
          /\ Called("setType", self, type)
    /\ UNCHANGED <<props, lastSet, keyVars, singletonVars, componentVars>>

setEnabled ==
    /\ ncalls < MaxPropCalls
    /\ \E self \in Instances, flag \in BOOLEAN :
          /\ props' = [props EXCEPT ![self] = Store(@, "enabled", flag)]
          /\ ret' = self
          /\ Called("setEnabled", self, flag)
          /\ Remember(self, "enabled", flag)
    /\ UNCHANGED <<alerts, keyVars, singletonVars, componentVars>>

setReadOnly ==
    /\ ncalls < MaxPropCalls
    /\ \E self \in Instances, flag \in BOOLEAN :
          /\ props' = [props EXCEPT ![self] = Store(@, "readonly", flag)]
          /\ ret' = self
          /\ Called("setReadOnly", self, flag)
          /\ Remember(self, "readonly", flag)
    /\ UNCHANGED <<alerts, keyVars, singletonVars, componentVars>>

setDerived ==
    /\ ncalls < MaxPropCalls
    /\ \E self \in Instances, flag \in BOOLEAN :
          /\ alerts' = Append(alerts, [msg |-> "Derived cannot be changed",
                                       tag |-> "Properties"])
          /\ ret' = self
          /\ Called("setDerived", self, flag)
    /\ UNCHANGED <<props, lastSet, keyVars, singletonVars, componentVars>>

setRequired ==
    /\ ncalls < MaxPropCalls
    /\ \E self \in Instances, flag \in BOOLEAN :
          /\ props' = [props EXCEPT ![self] = Store(@, "required", flag)]
          /\ ret' = self
          /\ Called("setRequired", self, flag)
          /\ Remember(self, "required", flag)
    /\ UNCHANGED <<alerts, keyVars, singletonVars, componentVars>>

setHidden ==
    /\ ncalls < MaxPropCalls
    /\ \E self \in Instances, flag \in BOOLEAN :
          /\ props' = [props EXCEPT ![self] = Store(@, "hidden", flag)]
          /\ ret' = self
          /\ Called("setHidden", self, flag)
          /\ Remember(self, "hidden", flag)
    /\ UNCHANGED <<alerts, keyVars, singletonVars, componentVars>>

setStyles ==
    /\ ncalls < MaxPropCalls
    /\ \E self \in Instances, styles \in Styles :
          /\ props' = [props EXCEPT ![self] = Store(@, "styles", styles)]
          /\ ret' = self
          /\ Called("setStyles", self, styles)
          /\ Remember(self, "styles", styles)
    /\ UNCHANGED <<alerts, keyVars, singletonVars, componentVars>>

setValue ==
    /\ ncalls < MaxPropCalls
    /\ \E self \in Instances, value \in Values :
          /\ props' = [props EXCEPT ![self] = Store(@, "value", value)]
          /\ ret' = self
          /\ Called("setValue", self, value)
          /\ Remember(self, "value", value)
    /\ UNCHANGED <<alerts, keyVars, singletonVars, componentVars>>

setValidValues ==
    /\ ncalls < MaxPropCalls
    /\ \E self \in Instances, values \in ValidValueSets :
          /\ props' = [props EXCEPT ![self] = Store(@, "validValues", values)]
          /\ ret' = self
          /\ Called("setValidValues", self, values)
          /\ Remember(self, "validValues", values)
    /\ UNCHANGED <<alerts, keyVars, singletonVars, componentVars>>

----------------------------------------------------------------------------
(* FormsModule: the singleton *)

\* Most FormsModule objects constructed in one run
MaxInstances == 3

\* Most calls of FormsModule.get() in one run
MaxGets == 3

\* The elements setRootElement is called with (NoElement: root$ not set)
NoElement == "none"
Elements == {NoElement, "div#popups"}

SingletonInit ==
    /\ instance = NoInstance
    /\ created = 0
    /\ inits = [dates |-> 0, keymap |-> 0, handler |-> 0]
    /\ getReturns = <<>>
    /\ showurl = <<>>
    /\ root = <<>>

\* constructor(): the three initialisations, then FormsModule.instance = this.
\* The new object is number created + 1; showurl$ starts true, root$ unset.
FormsModuleConstructor ==
    /\ created' = created + 1
    /\ inits' = [dates |-> inits.dates + 1,
                 keymap |-> inits.keymap + 1,
                 handler |-> inits.handler + 1]
    /\ instance' = created + 1
    /\ showurl' = Append(showurl, TRUE)
    /\ root' = Append(root, NoElement)

\* A wrong get() that never builds the object
getNoCreate ==
    /\ Len(getReturns) < MaxGets
    /\ UNCHANGED <<instance, created, inits, showurl, root>>
    /\ getReturns' = Append(getReturns, instance')
    /\ UNCHANGED <<keyVars, alerts, propVars, componentVars>>

\* FormsModule.get()
get ==
    /\ Len(getReturns) < MaxGets
    /\ IF instance = NoInstance
       THEN created < MaxInstances /\ FormsModuleConstructor
       ELSE UNCHANGED <<instance, created, inits, showurl, root>>
    /\ getReturns' = Append(getReturns, instance')
    /\ UNCHANGED <<keyVars, alerts, propVars, componentVars>>

\* new FormsModule()
new ==
    /\ created < MaxInstances
    /\ FormsModuleConstructor
    /\ UNCHANGED getReturns
    /\ UNCHANGED <<keyVars, alerts, propVars, componentVars>>

\* set showurl(flag), on any of the objects built so far
setShowurl ==
    /\ \E self \in 1..created, flag \in BOOLEAN :
          showurl' = [showurl EXCEPT ![self] = flag]
    /\ UNCHANGED <<instance, created, inits, getReturns, root>>
    /\ UNCHANGED <<keyVars, alerts, propVars, componentVars>>

\* setRootElement(root), on any of the objects built so far
setRootElement ==
    /\ \E self \in 1..created, element \in Elements :
          root' = [root EXCEPT ![self] = element]
    /\ UNCHANGED <<instance, created, inits, getReturns, showurl>>
    /\ UNCHANGED <<keyVars, alerts, propVars, componentVars>>

----------------------------------------------------------------------------
(* FormsModule: the component maps *)

\* Longest sequence of mapComponent calls
MaxMapCalls == 3

\* No class: null, or the undefined a Map answers for a missing key
NoClass == [id |-> 0, name |-> Null]

\* The classes of the application: two of them differ in the case of the name only
Classes ==
    { [id |-> 1, name |-> <<"A">>],
      [id |-> 2, name |-> <<"a">>],
      [id |-> 3, name |-> <<"A", "b">>] }

\* The paths mapComponent is called with (null: omitted)
Paths == { Null, <<"a">>, <<"A">>, <<"A", "b">> }

\* Map.set(k, v)
MapSet(map, k, v) == [x \in DOMAIN map \cup {k} |-> IF x = k THEN v ELSE map[x]]

ComponentsInit ==
    /\ classmap = <<>>
    /\ classurl = <<>>
    /\ mapCalls = <<>>

\* A wrong path that keeps the case of the caller
MappedPathKeepCase(clazz, path) ==
    IF path = Null THEN clazz.name ELSE path

\* if (path == null) path = clazz.name; path = path.toLowerCase();
MappedPath(clazz, path) ==
    toLowerCase(IF path = Null THEN clazz.name ELSE path)

\* mapComponent(clazz, path?)
mapComponent ==
    /\ Len(mapCalls) < MaxMapCalls
    /\ \E clazz \in Classes \cup {NoClass}, path \in Paths :
          /\ mapCalls' = Append(mapCalls, [clazz |-> clazz, path |-> path])
          /\ IF clazz = NoClass
             THEN UNCHANGED <<classmap, classurl>>
             ELSE /\ classmap' = MapSet(classmap, MappedPath(clazz, path), clazz)
                  /\ classurl' = MapSet(classurl, toLowerCase(clazz.name),
                                        MappedPath(clazz, path))
    /\ UNCHANGED <<keyVars, alerts, propVars, singletonVars>>

\* The argument of getFormPath: null, a class, or a class name
NullClassArg == [kind |-> "null", clazz |-> NoClass, name |-> Null]
ClassArg(c) == [kind |-> "class", clazz |-> c, name |-> Null]
NameArg(n) == [kind |-> "string", clazz |-> NoClass, name |-> n]

\* FormsModule.getFormPath(clazz); a missing key gives undefined (here Null)
getFormPath(arg) ==
    IF arg.kind = "null" THEN Null
    ELSE LET name == IF arg.kind = "class" THEN arg.clazz.name ELSE arg.name
         IN  IF toLowerCase(name) \in DOMAIN classurl
             THEN classurl[toLowerCase(name)]
             ELSE Null

\* getComponent(path); a missing key gives undefined (here NoClass)
getComponent(path) ==
    IF toLowerCase(path) \in DOMAIN classmap
    THEN classmap[toLowerCase(path)]
    ELSE NoClass

----------------------------------------------------------------------------
(* Specifications *)

KeyIdle ==
    /\ blockArg = [kind |-> "null", name |-> Null]
    /\ fieldsArg = NullFields
    /\ heap = <<>>
    /\ passed = Null
    /\ key = NewKey
    /\ outcome = "pending"
    /\ atReturn = [block |-> Null, fields |-> Null]

\* One construction of a Key, and what its caller does with the arrays afterwards
InitKey == KeyInit /\ PropsInit /\ SingletonInit /\ ComponentsInit
NextKey == Construct \/ CallerWrite \/ AccessorWrite
SpecKey == InitKey /\ [][NextKey]_vars

\* Chains of calls on FieldProperties objects
InitProps == KeyIdle /\ alerts = <<>> /\ PropsInit /\ SingletonInit /\ ComponentsInit
NextProps ==
    \/ setTag \/ setType \/ setEnabled \/ setReadOnly \/ setDerived
    \/ setRequired \/ setHidden \/ setStyles \/ setValue \/ setValidValues
SpecProps == InitProps /\ [][NextProps]_vars

\* The life of the FormsModule singleton
InitSingleton == KeyIdle /\ alerts = <<>> /\ PropsInit /\ SingletonInit /\ ComponentsInit
NextSingleton == get \/ new \/ setShowurl \/ setRootElement
SpecSingleton == InitSingleton /\ [][NextSingleton]_vars

\* Sequences of mapComponent calls
InitComponents == KeyIdle /\ alerts = <<>> /\ PropsInit /\ SingletonInit /\ ComponentsInit
NextComponents == mapComponent
SpecComponents == InitComponents /\ [][NextComponents]_vars

\* The whole program
Init == InitKey
Next == NextKey \/ NextProps \/ NextSingleton \/ NextComponents
Spec == Init /\ [][Next]_vars

----------------------------------------------------------------------------
(* Properties *)

\* Case folding as the properties state it, by the table of letters
LowerPairs == { <<"a", "a">>, <<"A", "a">>, <<"b", "b">>, <<"B", "b">> }

\* l is s in lower case
IsLowerCaseOf(l, s) ==
    /\ Len(l) = Len(s)
    /\ \A i \in 1..Len(s) : <<s[i], l[i]>> \in LowerPairs

\* s and t are equal up to the case of their letters
SameIgnoringCase(s, t) ==
    /\ Len(s) = Len(t)
    /\ \A i \in 1..Len(s) :
          \E c \in {"a", "b"} : <<s[i], c>> \in LowerPairs /\ <<t[i], c>> \in LowerPairs

\* The constructor was given a list, not empty, with no null in it
ListOfIdentifiers ==
    /\ fieldsArg.kind = "array"
    /\ passed # <<>>
    /\ \A i \in 1..Len(passed) : passed[i] # Null

\* C1: a Key built from a non-null block and a non-empty list of non-null
\* identifiers raises no fatal alert, and holds the block in lower case, the
\* identifiers in lower case in the order given, and no name.
C1_KeyStoresLowerCase ==
    (outcome # "pending" /\ blockArg.kind # "null" /\ ListOfIdentifiers)
    => /\ outcome = "returned"
       /\ alerts = <<>>
       /\ key.name = Null
       /\ key.block = atReturn.block
       /\ IsLowerCaseOf(atReturn.block, blockArg.name)
       /\ Len(atReturn.fields) = Len(passed)
       /\ \A i \in 1..Len(passed) : IsLowerCaseOf(atReturn.fields[i], passed[i])

C1_Witness ==
    /\ outcome = "returned"
    /\ blockArg = [kind |-> "block", name |-> <<"A", "b">>]
    /\ passed = << <<"A", "b">>, <<"A">> >>
    /\ atReturn.fields = << <<"a", "b">>, <<"a">> >>
    /\ key.block = <<"a", "b">>

\* C2: with a null block, null fields or an empty list the constructor raises
\* exactly one fatal alert, tagged "Key", throws nothing, and leaves name, block
\* and fields null.
C2_InvalidKeyIsFatal ==
    (/\ outcome # "pending"
     /\ \/ blockArg.kind = "null"
        \/ fieldsArg.kind = "null"
        \/ (fieldsArg.kind = "array" /\ passed = <<>>))
    => /\ outcome = "returned"
       /\ Len(alerts) = 1
       /\ alerts[1].tag = "Key"
       /\ key.name = Null
       /\ key.block = Null
       /\ key.fields = NoRef

C2_Witness ==
    /\ outcome = "returned"
    /\ blockArg.kind = "string"
    /\ fieldsArg.kind = "array"
    /\ passed = <<>>
    /\ alerts = << [msg |-> "Invalid key definition, no fields", tag |-> "Key"] >>
    /\ key = NewKey

\* C3: a null element in the list is a fatal construction error like the
\* others: a fatal alert tagged "Key" is raised and nothing is thrown.
C3_NullElementIsFatal ==
    (/\ outcome # "pending"
     /\ blockArg.kind # "null"
     /\ fieldsArg.kind = "array"
     /\ \E i \in 1..Len(passed) : passed[i] = Null)
    => /\ outcome = "returned"
       /\ Len(alerts) >= 1
       /\ alerts[1].tag = "Key"

\* C4: every Key constructed without a fatal alert has a block that is neither
\* null nor empty.
C4_NoEmptyBlock ==
    (outcome = "returned" /\ alerts = <<>>)
    => (key.block # Null /\ key.block # <<>>)

\* C5: after construction, block and the content of fields stay what they were
\* when the constructor returned, whatever the caller does with its arrays.
C5_KeyIsReadOnly ==
    (outcome = "returned" /\ key.fields # NoRef)
    => /\ key.block = atReturn.block
       /\ Content(heap, FieldsAccessor(key)) = atReturn.fields

\* C9: a Key built from a single identifier F is the Key built from the list [F]:
\* same block, same fields, same name (and the same alerts and outcome).
C9_SingleIsOneElementList ==
    (outcome # "pending" /\ blockArg.kind # "null" /\ fieldsArg.kind = "string")
    => LET list == KeyConstructor(blockArg, ArrayFields(1), << <<fieldsArg.value>> >>)
       IN  /\ outcome = list.outcome
           /\ alerts = list.alerts
           /\ key.name = list.key.name
           /\ atReturn.block = list.key.block
           /\ atReturn.fields = Content(list.heap, list.key.fields)

C9_Witness ==
    /\ outcome = "returned"
    /\ blockArg.kind = "string"
    /\ fieldsArg = StringFields(<<"A", "b">>)
    /\ atReturn.fields = << <<"a", "b">> >>

\* The step is a call of one of the methods
IsCall(methods) == ncalls' # ncalls /\ lastCall'.method \in methods

\* C7: each call of setType or setDerived raises one fatal alert tagged
\* "Properties", changes no attribute of any object, and returns the object it
\* was called on.
C7_PoisonedSetters ==
    [][IsCall({"setType", "setDerived"})
       => /\ Len(alerts') = Len(alerts) + 1
          /\ SubSeq(alerts', 1, Len(alerts)) = alerts
          /\ alerts'[Len(alerts')].tag = "Properties"
          /\ props' = props
          /\ ret' = lastCall'.self]_vars

C7_Witness ==
    /\ lastCall.method = "setType"
    /\ lastCall.arg # props[lastCall.self].type
    /\ Len(alerts) = ncalls
    /\ ncalls = MaxPropCalls

\* The attribute a direct setter stores
AttributeOf(method) ==
    CASE method = "setTag" -> "tag"
      [] method = "setEnabled" -> "enabled"
      [] method = "setReadOnly" -> "readonly"
      [] method = "setRequired" -> "required"
      [] method = "setHidden" -> "hidden"
      [] method = "setStyles" -> "styles"
      [] method = "setValue" -> "value"
      [] method = "setValidValues" -> "validValues"

DirectSetters ==
    {"setTag", "setEnabled", "setReadOnly", "setRequired", "setHidden", "setStyles",
     "setValue", "setValidValues"}

C6_OneInstanceOneInit ==
    /\ \A i, j \in 1..Len(getReturns) : getReturns[i] = getReturns[j]
    /\ inits.dates <= 1 /\ inits.keymap <= 1 /\ inits.handler <= 1
    /\ created > 0 => (inits.dates = 1 /\ inits.keymap = 1 /\ inits.handler = 1)

\* The path a mapComponent call maps: the one given or the class name
GivenPath(call) == IF call.path = Null THEN call.clazz.name ELSE call.path

Last(S) == CHOOSE i \in S : \A j \in S : j <= i

\* The calls of mapComponent, with a class, whose path is p up to case
CallsForPath(p) ==
    { i \in 1..Len(mapCalls) :
        mapCalls[i].clazz # NoClass /\ SameIgnoringCase(GivenPath(mapCalls[i]), p) }

\* The calls of mapComponent, with a class, for a class named n up to case
CallsForName(n) ==
    { i \in 1..Len(mapCalls) :
        mapCalls[i].clazz # NoClass /\ SameIgnoringCase(mapCalls[i].clazz.name, n) }

\* The strings looked up: every case variant of the paths and names in use
Lookups == (Paths \ {Null}) \cup { <<"a", "b">>, <<"a", "B">>, <<"b">> }

\* C10: getComponent(p) is the class of the last mapComponent call for p up to
\* case, getFormPath(c) is the lower-cased path of the last call for a class
\* named like c up to case (by class or by name), nothing when there is no such
\* call; calls with a null class count for nothing.
C10_LookupLastWriterWins ==
    /\ \A p \in Lookups :
          getComponent(p) =
             IF CallsForPath(p) = {} THEN NoClass
             ELSE mapCalls[Last(CallsForPath(p))].clazz
    /\ \A n \in Lookups :
          \A arg \in {NameArg(n)} \cup { ClassArg(c) : c \in {k \in Classes : k.name = n} } :
             IF CallsForName(n) = {}
             THEN getFormPath(arg) = Null
             ELSE IsLowerCaseOf(getFormPath(arg),
                                GivenPath(mapCalls[Last(CallsForName(n))]))

C10_Witness ==
    /\ Len(mapCalls) = 3
    /\ mapCalls[1] = [clazz |-> [id |-> 1, name |-> <<"A">>], path |-> Null]
    /\ mapCalls[2] = [clazz |-> [id |-> 2, name |-> <<"a">>], path |-> <<"A">>]
    /\ mapCalls[3] = [clazz |-> NoClass, path |-> <<"a">>]
    /\ getComponent(<<"A">>).id = 2
    /\ getFormPath(ClassArg([id |-> 1, name |-> <<"A">>])) = <<"a">>
====
